---- MODULE Spec2Model ----
(***************************************************************************)
(* Signaling server of Zoom Lite Offline (Bun HTTP + WebSocket server).    *)
(* The model covers the websocket handlers open / message / close, the     *)
(* process-wide room table `rooms`, and the helpers broadcast and sendTo.  *)
(* Every handler runs to completion before the next one starts (one        *)
(* JavaScript event loop), so each handler is one atomic action.           *)
(*                                                                         *)
(* Abstractions, none of which a handler can observe:                      *)
(*  - a Map is a function on its key set; the order in which broadcast     *)
(*    visits the participants is dropped, and the frames a handler sends   *)
(*    are a bag (who got which message how many times);                    *)
(*  - connections are numbered in the order in which they are accepted;    *)
(*  - the user behind connection c always types the same display name.     *)
(***************************************************************************)
EXTENDS Naturals, FiniteSets, Sequences, Bags

\* Number of websocket connections the server accepts in one run.
MaxConns == 3

\* The websocket objects, numbered in the order in which they are accepted.
Conns == 1..MaxConns

\* JavaScript's undefined (a missing field of a parsed message, an unset property).
Undefined == "undefined"

\* Values of generateParticipantId().
PartIdNames == <<"p1", "p2", "p3", "p4", "p5", "p6">>
PartIds == {PartIdNames[i] : i \in 1..MaxConns}

\* Values of generateRoomId(), in upper case as it returns them.
RoomIdNames == <<"AAAAAA", "BBBBBB">>
RoomIds == {RoomIdNames[i] : i \in DOMAIN RoomIdNames}

\* data.name as connection c sends it in create-room / join-room: the first user
\* sends none, the others their display name.
NameOf(c) == IF c = 1 THEN Undefined ELSE IF c = 2 THEN "Ann" ELSE "Bob"

\* String.prototype.toUpperCase on the room ids of the model.
toUpperCase(s) ==
    IF s = "aaaaaa" THEN "AAAAAA" ELSE IF s = "bbbbbb" THEN "BBBBBB" ELSE s

\* elements.roomInput as a user types a room id: as the server shows it, or the
\* first id in lower case.
TypedIds == RoomIds \cup {"aaaaaa"}

\* data.roomId of a join-room message: missing, or a room id typed by the user.
JoinIds == RoomIds \cup {Undefined}

RelayTypes == {"offer", "answer", "ice-candidate"}

ScreenTypes == {"start-screen-share", "stop-screen-share"}

RecordingTypes == {"recording-started", "recording-stopped"}

\* data.streamId as the page sends it: state.screenStream.id in start-screen-share,
\* and no such field in the other notices.
StreamIdOf(type) == IF type = "start-screen-share" THEN "screen1" ELSE Undefined

\* data.target of a relay message: missing, or a participant id.
Targets == PartIds \cup {Undefined}

\* data.from of a relay message: absent as the client of this repository sends it,
\* or a participant id written there by another client.
PayloadFroms == {Undefined, PartIdNames[1]}

VARIABLES
    readyState,      \* readyState[c]: "connecting" (not yet accepted), "open", "closed"
    participantId,   \* ws.participantId of each connection (set by open)
    roomId,          \* ws.roomId of each connection (set by create-room / join-room)
    rooms,           \* the Map rooms: room id -> Room
    last,            \* the handler that has just run and its input
    sent,            \* the frames that handler sent: a bag of [to |-> connection, msg |-> message]
    state,           \* state[q]: the object `state` of page q (src/public/main.js)
    outbox,          \* outbox[c]: what the page has sent on connection c and the server has yet to take
    heard            \* heard[c][p]: the last membership notice about participant p delivered on connection c

\* The variables of the pages; the handlers of the server touch none of them.
pageVars == <<state, outbox, heard>>

vars == <<readyState, participantId, roomId, rooms, last, sent, state, outbox, heard>>

\* No handler is running and the frames of the last one have gone out.
Idle == [ev |-> "idle", ws |-> 0, data |-> [type |-> Undefined]]

----------------------------------------------------------------------------
(* JavaScript Map<string, Participant> as a function on its keys.          *)

MapHas(m, k) == k \in DOMAIN m

MapSet(m, k, v) == [x \in DOMAIN m \cup {k} |-> IF x = k THEN v ELSE m[x]]

\* Mutant of MapDelete: the entry stays.
MapDeleteNothing(m, k) == m

MapDelete(m, k) == [x \in DOMAIN m \ {k} |-> m[x]]

\* a || b for a string field: undefined (and "") are falsy.
OrDefault(a, b) == IF a = Undefined THEN b ELSE a

----------------------------------------------------------------------------
(* Helpers of the server.                                                  *)

\* Mutant of Recipients: the test participant.id !== excludeId is missing.
RecipientsWithSender(room, excludeId) ==
    {p \in DOMAIN room.participants : readyState[room.participants[p].ws] = "open"}

\* The participants broadcast sends to: all but excludeId whose socket is OPEN.
Recipients(room, excludeId) ==
    {p \in DOMAIN room.participants :
        p # excludeId /\ readyState[room.participants[p].ws] = "open"}

\* Mutant of broadcast: the message goes to every open connection of the server.
broadcastEverywhere(room, message, excludeId) ==
    SetToBag({[to |-> c, msg |-> message] :
                 c \in {d \in Conns : readyState[d] = "open" /\ participantId[d] # excludeId}})

\* broadcast(room, message, excludeId): one participant.ws.send(data) per recipient.
broadcast(room, message, excludeId) ==
    LET to == Recipients(room, excludeId)
        frames == {[to |-> room.participants[p].ws, msg |-> message] : p \in to}
    IN [f \in frames |-> Cardinality({p \in to : room.participants[p].ws = f.to})]

\* Mutant of sendTo: the message goes to the whole room instead of the target.
sendToRoom(room, targetId, message) == broadcast(room, message, Undefined)

\* Mutant of sendTo: the target is looked up in every room of the table.
sendToAnyRoom(room, targetId, message) ==
    LET holders == {r \in DOMAIN rooms :
                       /\ MapHas(rooms[r].participants, targetId)
                       /\ readyState[rooms[r].participants[targetId].ws] = "open"}
    IN IF holders = {} THEN EmptyBag
       ELSE SetToBag({[to |-> rooms[CHOOSE r \in holders : TRUE].participants[targetId].ws,
                       msg |-> message]})

\* sendTo(room, targetId, message): to the participant targetId, if present and OPEN.
sendTo(room, targetId, message) ==
    IF MapHas(room.participants, targetId)
       /\ readyState[room.participants[targetId].ws] = "open"
    THEN SetToBag({[to |-> room.participants[targetId].ws, msg |-> message]})
    ELSE EmptyBag

\* ws.send(message) inside a handler of ws.
Reply(ws, message) == SetToBag({[to |-> ws, msg |-> message]})

----------------------------------------------------------------------------

\* const state = { ... } of a page that has just been loaded. ws is the number of
\* the connection behind state.ws (0 for null), wsReadyState its readyState as the
\* page sees it; peers is the Map state.peers; pingInterval tells whether the
\* heartbeat timer is set. awaiting and pending are the place of the room-joined
\* handler in its loop: the participant whose createPeerConnection it awaits and
\* the rest of the list; reconnectTimer tells whether the timer onclose sets is
\* pending. mediaRecorder is the state of the MediaRecorder state.mediaRecorder
\* refers to ("none" while it is null), recordingTimers the number of timers of
\* startRecording that are pending and recorders the number of MediaRecorders
\* of the page that have been started and not stopped.
InitialState ==
    [ws |-> 0, wsReadyState |-> "closed", roomId |-> Undefined,
     participantId |-> Undefined, isReconnecting |-> FALSE, isMicOn |-> TRUE,
     peers |-> <<>>, pingInterval |-> FALSE, reconnectAttempts |-> 0,
     isScreenSharing |-> FALSE, screenSharerId |-> Undefined,
     awaiting |-> Undefined, pending |-> <<>>, reconnectTimer |-> FALSE,
     isHost |-> FALSE, isRecording |-> FALSE, isRecordingPaused |-> FALSE,
     mediaRecorder |-> "none", recordingTimers |-> 0, recorders |-> 0]

\* A page is named after the first connection it opens.
Init ==
    /\ readyState = [c \in Conns |-> "connecting"]
    /\ participantId = [c \in Conns |-> Undefined]
    /\ roomId = [c \in Conns |-> Undefined]
    /\ rooms = <<>>
    /\ last = Idle
    /\ sent = EmptyBag
    /\ state = [q \in Conns |-> InitialState]
    /\ outbox = [c \in Conns |-> {}]
    /\ heard = [c \in Conns |-> [p \in PartIds |-> "none"]]

\* generateParticipantId(): 8 base-36 digits of Math.random. The model gives every
\* connection an id of its own (the data model of the specification: unique within
\* the process for the life of the connection).
generateParticipantId(ws) == PartIdNames[ws]

\* websocket.open(ws). Connections are accepted in the order of their numbers.
HandleOpen(ws) ==
    /\ last = Idle
    /\ readyState[ws] = "connecting"
    /\ \A c \in Conns : c < ws => readyState[c] # "connecting"
    /\ participantId' = [participantId EXCEPT ![ws] = generateParticipantId(ws)]
    /\ readyState' = [readyState EXCEPT ![ws] = "open"]
    /\ last' = [ev |-> "open", ws |-> ws, data |-> [type |-> Undefined]]
    /\ sent' = EmptyBag
    /\ UNCHANGED <<roomId, rooms>>

\* A connection is accepted (seen from the server alone).
Open(ws) == HandleOpen(ws) /\ UNCHANGED pageVars

\* rooms.get(id) finds a room
RoomsHas(id) == id \in DOMAIN rooms

\* rooms.set(id, room)
RoomsSet(id, room) == [r \in DOMAIN rooms \cup {id} |-> IF r = id THEN room ELSE rooms[r]]

\* rooms.delete(id)
RoomsDelete(id) == [r \in DOMAIN rooms \ {id} |-> rooms[r]]

\* generateRoomId(): 6 base-36 digits of Math.random, upper-cased, checked against
\* nothing. It may return an id the table or some connection still holds, or an id
\* nobody holds (ids are opaque, so the first of those stands for all of them).
generateRoomId ==
    LET held == DOMAIN rooms \cup ({roomId[c] : c \in Conns} \ {Undefined})
        free == {i \in DOMAIN RoomIdNames : RoomIdNames[i] \notin held}
    IN held \cup (IF free = {} THEN {}
                  ELSE {RoomIdNames[CHOOSE i \in free : \A j \in free : i <= j]})

\* create-room: const participant = { id, name: data.name || "Host", ws, isHost: true }
CreateRoomParticipant(ws, data) ==
    [id |-> participantId[ws], name |-> OrDefault(data.name, "Host"),
     ws |-> ws, isHost |-> TRUE]

\* create-room: const room = { id, host: participant, participants: new Map([[id, participant]]) }
NewRoom(id, participant) ==
    [id |-> id, host |-> participant,
     participants |-> MapSet(<<>>, participant.id, participant)]

\* Mutant of RoomCreated: the reply goes through broadcast to the room it replaced.
RoomCreatedToOldRoom(ws, id) ==
    LET message == [type |-> "room-created", roomId |-> id,
                    participantId |-> participantId[ws], isHost |-> TRUE]
    IN Reply(ws, message)
       (+) (IF RoomsHas(id) THEN broadcast(rooms[id], message, participantId[ws])
            ELSE EmptyBag)

\* create-room: the frames it sends, ws.send(room-created)
RoomCreated(ws, id) ==
    Reply(ws, [type |-> "room-created", roomId |-> id,
               participantId |-> participantId[ws], isHost |-> TRUE])

\* message: case "create-room", for the parsed message data
HandleCreateRoom(ws, data) ==
    /\ last = Idle
    /\ readyState[ws] = "open"
    /\ \E id \in generateRoomId :
          LET participant == CreateRoomParticipant(ws, data)
              room == NewRoom(id, participant)
          IN /\ rooms' = RoomsSet(id, room)
             /\ roomId' = [roomId EXCEPT ![ws] = id]
             /\ sent' = RoomCreated(ws, id)
             /\ last' = [ev |-> "message", ws |-> ws, data |-> data]
    /\ UNCHANGED <<readyState, participantId>>

\* A create-room arrives on ws.
CreateRoom(ws) ==
    /\ HandleCreateRoom(ws, [type |-> "create-room", name |-> NameOf(ws)])
    /\ UNCHANGED pageVars

\* Mutant of existingParticipants: the filter on the caller's id is missing.
existingParticipantsUnfiltered(room, pid) ==
    {[id |-> p.id, name |-> p.name, isHost |-> p.isHost] :
        p \in {room.participants[k] : k \in DOMAIN room.participants}}

\* The participants array of room-joined: everybody in the room but the caller.
existingParticipants(room, pid) ==
    {[id |-> p.id, name |-> p.name, isHost |-> p.isHost] :
        p \in {room.participants[k] : k \in DOMAIN room.participants \ {pid}}}

\* Mutant of RoomNotFound: the handler returns without telling the requester.
RoomNotFoundSilent(ws) == EmptyBag

\* join-room: ws.send(error) when rooms.get(data.roomId) finds nothing
RoomNotFound(ws) == Reply(ws, [type |-> "error", message |-> "Room not found"])

\* join-room: const participant = { id, name: data.name || "Guest", ws, isHost: false }
JoinRoomParticipant(ws, data) ==
    [id |-> participantId[ws], name |-> OrDefault(data.name, "Guest"),
     ws |-> ws, isHost |-> FALSE]

\* join-room: the frames it sends, ws.send(room-joined) and broadcast(participant-joined)
RoomJoined(ws, data, room) ==
    Reply(ws, [type |-> "room-joined", roomId |-> data.roomId,
               participantId |-> participantId[ws], isHost |-> FALSE,
               participants |-> existingParticipants(room, participantId[ws])])
    (+) broadcast(room,
                  [type |-> "participant-joined",
                   participant |-> [id |-> participantId[ws], name |-> data.name,
                                    isHost |-> FALSE]],
                  participantId[ws])

\* message: case "join-room", for the parsed message data (data.rejoinId is never read)
HandleJoinRoom(ws, data) ==
    /\ last = Idle
    /\ readyState[ws] = "open"
    /\ last' = [ev |-> "message", ws |-> ws, data |-> data]
    /\ IF ~RoomsHas(data.roomId)
       THEN /\ sent' = RoomNotFound(ws)
            /\ UNCHANGED <<rooms, roomId>>
       ELSE LET participant == JoinRoomParticipant(ws, data)
                room == [rooms[data.roomId] EXCEPT !.participants =
                            MapSet(@, participantId[ws], participant)]
            IN /\ rooms' = RoomsSet(data.roomId, room)
               /\ roomId' = [roomId EXCEPT ![ws] = data.roomId]
               /\ sent' = RoomJoined(ws, data, room)
    /\ UNCHANGED <<readyState, participantId>>

\* A join-room without rejoinId arrives on ws: the one the lobby form sends, or one
\* with no room id in it.
JoinRoom(ws) ==
    /\ \E rid \in JoinIds :
          HandleJoinRoom(ws, [type |-> "join-room", roomId |-> rid, name |-> NameOf(ws),
                              rejoinId |-> Undefined])
    /\ UNCHANGED pageVars

\* A join-room arrives on ws from a client that sends the room id as it was typed,
\* not in upper case (the server takes the text as it comes).
JoinRoomAsTyped(ws) ==
    /\ \E rid \in TypedIds \ RoomIds :
          HandleJoinRoom(ws, [type |-> "join-room", roomId |-> rid, name |-> NameOf(ws),
                              rejoinId |-> Undefined])
    /\ UNCHANGED pageVars

\* The join-room connectWebSocket's onopen sends when the page reconnects after its
\* connection c was lost: the room and the participant id connection c was given,
\* under the name typed on that page.
RejoinRoom(ws) ==
    /\ \E c \in {d \in Conns : readyState[d] = "closed" /\ roomId[d] # Undefined} :
          HandleJoinRoom(ws, [type |-> "join-room", roomId |-> roomId[c],
                              name |-> NameOf(c), rejoinId |-> participantId[c]])
    /\ UNCHANGED pageVars

\* { type: data.type, from: participantId, ...data }: the spread comes last, so a
\* field `from` of the payload replaces the one the server wrote.
RelayMessage(data, pid) ==
    [type |-> data.type, from |-> IF data.from = Undefined THEN pid ELSE data.from,
     target |-> data.target, sdp |-> data.sdp]

\* message: case "offer" / "answer" / "ice-candidate", for the parsed message data
HandleRelay(ws, data) ==
    /\ last = Idle
    /\ readyState[ws] = "open"
    /\ last' = [ev |-> "message", ws |-> ws, data |-> data]
    /\ sent' = IF ~RoomsHas(roomId[ws]) THEN EmptyBag
               ELSE sendTo(rooms[roomId[ws]], data.target,
                           RelayMessage(data, participantId[ws]))
    /\ UNCHANGED <<readyState, participantId, roomId, rooms>>

\* An offer, answer or ice-candidate arrives on ws.
Relay(ws) ==
    /\ \E type \in RelayTypes, target \in Targets, from \in PayloadFroms :
          HandleRelay(ws, [type |-> type, target |-> target, from |-> from, sdp |-> "sdp"])
    /\ UNCHANGED pageVars

\* message: case "toggle-media", for the parsed message data
HandleToggleMedia(ws, data) ==
    /\ last = Idle
    /\ readyState[ws] = "open"
    /\ last' = [ev |-> "message", ws |-> ws, data |-> data]
    /\ sent' = IF ~RoomsHas(roomId[ws]) THEN EmptyBag
               ELSE broadcast(rooms[roomId[ws]],
                              [type |-> "media-state-changed",
                               participantId |-> participantId[ws],
                               mediaType |-> data.mediaType,
                               enabled |-> data.enabled],
                              participantId[ws])
    /\ UNCHANGED <<readyState, participantId, roomId, rooms>>

\* A toggle-media arrives on ws.
ToggleMedia(ws) ==
    /\ \E mediaType \in {"audio", "video"}, enabled \in BOOLEAN :
          HandleToggleMedia(ws, [type |-> "toggle-media", mediaType |-> mediaType,
                                 enabled |-> enabled])
    /\ UNCHANGED pageVars

\* message: case "start-screen-share" / "stop-screen-share" and
\*          case "recording-started" / "recording-stopped" (the same code twice)
HandleNotify(ws, data) ==
    /\ last = Idle
    /\ readyState[ws] = "open"
    /\ last' = [ev |-> "message", ws |-> ws, data |-> data]
    /\ sent' = IF ~RoomsHas(roomId[ws]) THEN EmptyBag
               ELSE broadcast(rooms[roomId[ws]],
                              [type |-> data.type,
                               participantId |-> participantId[ws]],
                              participantId[ws])
    /\ UNCHANGED <<readyState, participantId, roomId, rooms>>

\* A start-screen-share, stop-screen-share, recording-started or recording-stopped
\* arrives on ws.
Notify(ws) ==
    /\ \E type \in ScreenTypes \cup RecordingTypes :
          HandleNotify(ws, [type |-> type, streamId |-> StreamIdOf(type)])
    /\ UNCHANGED pageVars

\* data.type of a message the switch has no case for: text JSON.parse rejects (the
\* catch logs it) or an object without type, and "ping", which the page sends every
\* 15 seconds.
UnhandledTypes == {Undefined, "ping"}

\* Mutant of NoCase: a ping is answered with a pong.
NoCasePong(ws, data) ==
    IF data.type = "ping" THEN Reply(ws, [type |-> "pong"]) ELSE EmptyBag

\* The frames sent for a message no case matches: the switch falls through.
NoCase(ws, data) == EmptyBag

\* message: no case matches (or JSON.parse throws): the handler ends
HandleUnhandled(ws, data) ==
    /\ last = Idle
    /\ readyState[ws] = "open"
    /\ last' = [ev |-> "message", ws |-> ws, data |-> data]
    /\ sent' = NoCase(ws, data)
    /\ UNCHANGED <<readyState, participantId, roomId, rooms>>

\* A message without a case arrives on ws.
Unhandled(ws) ==
    /\ \E type \in UnhandledTypes : HandleUnhandled(ws, [type |-> type])
    /\ UNCHANGED pageVars

\* close: if (roomId && participantId) and rooms.get(roomId) finds the room
HasRoom(ws) ==
    roomId[ws] # Undefined /\ participantId[ws] # Undefined /\ RoomsHas(roomId[ws])

\* close: participant?.isHost, for the entry room.participants.get(participantId)
HostLeaves(ws) ==
    /\ MapHas(rooms[roomId[ws]].participants, participantId[ws])
    /\ rooms[roomId[ws]].participants[participantId[ws]].isHost

\* close: the room after room.participants.delete(participantId)
RoomWithout(ws) ==
    [rooms[roomId[ws]] EXCEPT !.participants = MapDelete(@, participantId[ws])]

\* close: the message it broadcasts to the room
CloseMessage(ws) ==
    IF HostLeaves(ws) THEN [type |-> "room-closed"]
    ELSE [type |-> "participant-left", participantId |-> participantId[ws]]

\* close: the table afterwards
RoomsAfterClose(ws) ==
    IF ~HasRoom(ws) THEN rooms
    ELSE IF HostLeaves(ws) THEN RoomsDelete(roomId[ws])
    ELSE RoomsSet(roomId[ws], RoomWithout(ws))

\* websocket.close(ws)
HandleClose(ws) ==
    /\ last = Idle
    /\ readyState[ws] = "open"
    /\ readyState' = [readyState EXCEPT ![ws] = "closed"]
    /\ last' = [ev |-> "close", ws |-> ws, data |-> [type |-> Undefined]]
    /\ sent' = IF HasRoom(ws) THEN broadcast(RoomWithout(ws), CloseMessage(ws), Undefined)
               ELSE EmptyBag
    /\ rooms' = RoomsAfterClose(ws)
    /\ UNCHANGED <<participantId, roomId>>

\* A connection closes (seen from the server alone).
Close(ws) == HandleClose(ws) /\ UNCHANGED pageVars

\* The handler returns to the event loop, which writes out the frames it queued;
\* the next event is taken only then.
Return ==
    /\ last # Idle
    /\ last' = Idle
    /\ sent' = EmptyBag
    /\ UNCHANGED <<readyState, participantId, roomId, rooms>>
    /\ UNCHANGED pageVars

Next ==
    \/ \E ws \in Conns :
        \/ Open(ws)
        \/ CreateRoom(ws)
        \/ JoinRoom(ws)
        \/ JoinRoomAsTyped(ws)
        \/ RejoinRoom(ws)
        \/ Relay(ws)
        \/ ToggleMedia(ws)
        \/ Notify(ws)
        \/ Unhandled(ws)
        \/ Close(ws)
    \/ Return

\* The whole server.
Spec == Init /\ [][Next]_vars

\* The room table alone: the handlers that write rooms or ws.roomId. The relay and
\* broadcast cases write neither, so the table goes through the same states here.
RoomNext ==
    \/ \E ws \in Conns :
        \/ Open(ws)
        \/ CreateRoom(ws)
        \/ JoinRoom(ws)
        \/ Close(ws)
    \/ Return

RoomSpec == Init /\ [][RoomNext]_vars

\* The room table with the one promise the event loop makes: a handler that has
\* started returns. When a client sends or closes is up to the client.
RoomLiveSpec == Init /\ [][RoomNext]_vars /\ WF_vars(Return)

\* The frames the last handler sent on connection c.
FramesOn(c) == {f.msg : f \in {g \in BagToSet(sent) : g.to = c}}

\* What the client on connection c has last been told about each participant, once
\* the frames of the last handler have arrived: participant-joined or
\* participant-left for that id; room-created, room-joined and room-closed begin
\* or end its stay in a room, and with it what it was told there.
HeardAfter(c) ==
    IF \E m \in FramesOn(c) : m.type \in {"room-created", "room-joined", "room-closed"}
    THEN [p \in PartIds |-> "none"]
    ELSE [p \in PartIds |->
            IF \E m \in FramesOn(c) : m.type = "participant-joined" /\ m.participant.id = p
            THEN "joined"
            ELSE IF \E m \in FramesOn(c) : m.type = "participant-left" /\ m.participantId = p
            THEN "left"
            ELSE heard[c][p]]

\* The handler returns and its frames arrive at the clients they were sent to.
Hear ==
    /\ last # Idle
    /\ last' = Idle
    /\ sent' = EmptyBag
    /\ heard' = [c \in Conns |-> HeardAfter(c)]
    /\ UNCHANGED <<readyState, participantId, roomId, rooms, state, outbox>>

NoticeNext ==
    \/ \E ws \in Conns :
        \/ Open(ws)
        \/ CreateRoom(ws)
        \/ JoinRoom(ws)
        \/ Close(ws)
    \/ Hear

\* The room table and what each client has been told about the others.
NoticeSpec == Init /\ [][NoticeNext]_vars

----------------------------------------------------------------------------
(* broadcast, one participant at a time.  participant.ws.send(data) of a   *)
(* Bun ServerWebSocket returns a number and broadcast drops it: the bytes  *)
(* sent, -1 when the frame was queued behind others (backpressure), 0 when *)
(* it was dropped because of a problem with the connection.                *)

SendResults == {"sent", "backpressure", "dropped"}

\* room.participants.forEach visits the keys in the order of insertion, which the
\* function that stands for the Map has lost: any order of the keys.
Orders(m) ==
    {order \in [1..Cardinality(DOMAIN m) -> DOMAIN m] :
        \A i, j \in 1..Cardinality(DOMAIN m) : order[i] = order[j] => i = j}

\* Mutant of Continues: a send that failed ends the loop, as an exception would.
ContinuesIfSent(result) == result # "dropped"

\* forEach calls its callback for the next participant after the callback has
\* returned: broadcast looks at nothing that ws.send returns.
Continues(result) == TRUE

\* broadcast(room, message, excludeId), the participants taken in this order and
\* ws.send(data) on connection c returning result[c]: the frames that reach their
\* connection (at once or from the queue).
RECURSIVE forEach(_, _, _, _, _)
forEach(order, room, message, excludeId, result) ==
    IF order = <<>> THEN EmptyBag
    ELSE LET participant == room.participants[Head(order)]
             called == /\ participant.id # excludeId
                       /\ readyState[participant.ws] = "open"
         IN (IF called /\ result[participant.ws] # "dropped"
             THEN Reply(participant.ws, message) ELSE EmptyBag)
            (+) (IF called => Continues(result[participant.ws])
                 THEN forEach(Tail(order), room, message, excludeId, result)
                 ELSE EmptyBag)

\* message: case "toggle-media" (the broadcast cases all call broadcast alike), with
\* sends that may fail
BroadcastMayFail(ws) ==
    /\ last = Idle
    /\ readyState[ws] = "open"
    /\ RoomsHas(roomId[ws])
    /\ \E order \in Orders(rooms[roomId[ws]].participants),
          result \in [Conns -> SendResults] :
          /\ last' = [ev |-> "message", ws |-> ws,
                      data |-> [type |-> "toggle-media", mediaType |-> "audio",
                                enabled |-> FALSE, result |-> result]]
          /\ sent' = forEach(order, rooms[roomId[ws]],
                             [type |-> "media-state-changed",
                              participantId |-> participantId[ws],
                              mediaType |-> "audio", enabled |-> FALSE],
                             participantId[ws], result)
    /\ UNCHANGED <<readyState, participantId, roomId, rooms>>
    /\ UNCHANGED pageVars

\* websocket.close(ws), with sends that may fail
CloseMayFail(ws) ==
    /\ last = Idle
    /\ readyState[ws] = "open"
    /\ HasRoom(ws)
    /\ readyState' = [readyState EXCEPT ![ws] = "closed"]
    /\ \E order \in Orders(RoomWithout(ws).participants),
          result \in [Conns -> SendResults] :
          /\ last' = [ev |-> "close", ws |-> ws,
                      data |-> [type |-> Undefined, result |-> result]]
          /\ sent' = forEach(order, RoomWithout(ws), CloseMessage(ws), Undefined, result)
    /\ rooms' = RoomsAfterClose(ws)
    /\ UNCHANGED <<participantId, roomId>>
    /\ UNCHANGED pageVars

BroadcastNext ==
    \/ \E ws \in Conns :
        \/ Open(ws)
        \/ CreateRoom(ws)
        \/ JoinRoom(ws)
        \/ BroadcastMayFail(ws)
        \/ CloseMayFail(ws)
        \/ Close(ws)
    \/ Return

\* The room table, and broadcasts whose sends may fail.
BroadcastSpec == Init /\ [][BroadcastNext]_vars

----------------------------------------------------------------------------
(* The pages (src/public/main.js) and the server together.  A page sends   *)
(* its messages into outbox; the server takes them one at a time (Receive) *)
(* and what a handler of the server sends reaches the pages before the     *)
(* next event (Deliver).  The order among the messages waiting in one      *)
(* outbox is dropped, and a message waiting twice waits once.              *)

\* elements.nameInput of page q: createRoom and joinRoom refuse an empty name.
PageName(q) == OrDefault(NameOf(q), "Cy")

\* A handler of a page has run: nothing goes out from the server.
PageEvent(ev, c, data) ==
    /\ last' = [ev |-> ev, ws |-> c, data |-> data]
    /\ sent' = EmptyBag
    /\ UNCHANGED <<participantId, roomId, rooms, heard>>

\* sendSignaling(data) of a page in state st: sent if state.ws is OPEN (and lost if
\* the server's end has closed already).
sendSignaling(st, messages) ==
    IF st.ws # 0 /\ st.wsReadyState = "open" /\ readyState[st.ws] = "open"
    THEN [outbox EXCEPT ![st.ws] = @ \cup messages]
    ELSE outbox

\* createRoom() / joinRoom() up to connectWebSocket(): a page is loaded and opens
\* its first connection, which the server accepts.
NewPage(c) ==
    /\ HandleOpen(c)
    /\ state' = [state EXCEPT ![c] = [@ EXCEPT !.ws = c, !.wsReadyState = "connecting"]]
    /\ UNCHANGED <<outbox, heard>>

\* state.maxReconnectAttempts
maxReconnectAttempts == 10

\* Mutant of MayReconnect: the attempts are not counted against the maximum.
MayReconnectAlways(st) == TRUE

\* ws.onclose: state.reconnectAttempts < state.maxReconnectAttempts
MayReconnect(st) == st.reconnectAttempts < maxReconnectAttempts

\* ws.onclose in a room, up to the call of connectWebSocket() in its timer: the
\* heartbeat is cleared, the page is reconnecting and has made one more attempt.
Reconnecting(st) ==
    [st EXCEPT !.pingInterval = FALSE, !.isReconnecting = TRUE,
               !.reconnectAttempts = @ + 1]

\* ws.onclose and its timer: page q, in a room, finds its connection closed (whether
\* or not the server has seen the close) and calls connectWebSocket() again.
Reconnect(q, c) ==
    /\ state[q].ws # 0
    /\ state[q].roomId # Undefined
    /\ MayReconnect(state[q])
    /\ HandleOpen(c)
    /\ state' = [state EXCEPT ![q] = [Reconnecting(@) EXCEPT !.ws = c,
                                                             !.wsReadyState = "connecting"]]
    /\ UNCHANGED <<outbox, heard>>

\* The first message of a connection: createRoom's onopen sends create-room,
\* joinRoom's onopen join-room with the room id typed, in upper case, and connectWebSocket's own
\* onopen, which a reconnect runs, join-room with rejoinId.
FirstMessages(st, q) ==
    IF st.isReconnecting
    THEN {[type |-> "join-room", roomId |-> st.roomId, name |-> PageName(q),
           rejoinId |-> st.participantId]}
    ELSE {[type |-> "create-room", name |-> PageName(q)]}
         \cup {[type |-> "join-room", roomId |-> toUpperCase(rid), name |-> PageName(q),
                rejoinId |-> Undefined] : rid \in TypedIds}

\* Whether the onopen that runs starts the heartbeat: connectWebSocket's own does,
\* and createRoom and joinRoom replace it by one that does not.
StartsHeartbeat(st) == st.isReconnecting

\* ws.onopen of page q
OnOpen(q) ==
    /\ last = Idle
    /\ state[q].ws # 0
    /\ state[q].wsReadyState = "connecting"
    /\ readyState[state[q].ws] = "open"
    /\ \E data \in FirstMessages(state[q], q) :
          LET st == [state[q] EXCEPT !.wsReadyState = "open",
                                     !.pingInterval = StartsHeartbeat(state[q])]
          IN /\ state' = [state EXCEPT ![q] = st]
             /\ outbox' = sendSignaling(st, {data})
             /\ PageEvent("onopen", st.ws, data)
    /\ UNCHANGED readyState

\* message(ws, message): the switch on data.type, for the messages a page sends
message(ws, data) ==
    \/ data.type = "create-room" /\ HandleCreateRoom(ws, data)
    \/ data.type = "join-room" /\ HandleJoinRoom(ws, data)
    \/ data.type \in RelayTypes /\ HandleRelay(ws, data)
    \/ data.type = "toggle-media" /\ HandleToggleMedia(ws, data)
    \/ data.type \in ScreenTypes \cup RecordingTypes /\ HandleNotify(ws, data)
    \/ data.type \in UnhandledTypes /\ HandleUnhandled(ws, data)

\* The server takes a message the page has sent on connection c.
Receive(c) ==
    \E data \in outbox[c] :
        /\ message(c, data)
        /\ outbox' = [outbox EXCEPT ![c] = @ \ {data}]
        /\ UNCHANGED <<state, heard>>

\* The server's end of connection c closes; what was still on its way is lost.
Drop(c) ==
    /\ HandleClose(c)
    /\ outbox' = [outbox EXCEPT ![c] = {}]
    /\ UNCHANGED <<state, heard>>

\* Mutant of MayOffer: every negotiationneeded makes an offer.
MayOfferAlways(peerData) == TRUE

\* pc.onnegotiationneeded: not (!initiator && !pc.currentRemoteDescription)
MayOffer(peerData) == peerData.initiator \/ peerData.remoteDescription

\* An offer as the page sends it.
Offer(peerId) == [type |-> "offer", target |-> peerId, from |-> Undefined, sdp |-> "sdp"]

\* pc.onnegotiationneeded of the peer connection page q holds for peerId
NegotiationNeeded(q, peerId) ==
    /\ last = Idle
    /\ state[q].ws # 0
    /\ peerId \in DOMAIN state[q].peers
    /\ IF MayOffer(state[q].peers[peerId])
       THEN /\ state' = [state EXCEPT ![q].peers[peerId].localDescription = TRUE]
            /\ outbox' = sendSignaling(state[q], {Offer(peerId)})
       ELSE UNCHANGED <<state, outbox>>
    /\ PageEvent("negotiationneeded", state[q].ws, [type |-> Undefined, target |-> peerId])
    /\ UNCHANGED readyState

\* toggleMic() of page q, in the meeting view; the user waits until the last
\* toggle has gone out.
toggleMic(q) ==
    /\ last = Idle
    /\ state[q].ws # 0
    /\ state[q].roomId # Undefined
    /\ \A data \in outbox[state[q].ws] : data.type # "toggle-media"
    /\ LET data == [type |-> "toggle-media", mediaType |-> "audio",
                    enabled |-> ~state[q].isMicOn]
       IN /\ state' = [state EXCEPT ![q].isMicOn = ~@]
          /\ outbox' = sendSignaling(state[q], {data})
          /\ PageEvent("toggleMic", state[q].ws, data)
    /\ UNCHANGED readyState

\* toggleScreenShare() of page q, in the meeting view: stopScreenShare() if the
\* page is sharing, startScreenShare() (the user picks a screen) if it is not;
\* the user waits until the last one has gone out.
toggleScreenShare(q) ==
    /\ last = Idle
    /\ state[q].ws # 0
    /\ state[q].roomId # Undefined
    /\ \A data \in outbox[state[q].ws] : data.type \notin ScreenTypes
    /\ LET type == IF state[q].isScreenSharing THEN "stop-screen-share"
                   ELSE "start-screen-share"
           data == [type |-> type, streamId |-> StreamIdOf(type)]
       IN /\ state' = [state EXCEPT ![q].isScreenSharing = ~@]
          /\ outbox' = sendSignaling(state[q], {data})
          /\ PageEvent("toggleScreenShare", state[q].ws, data)
    /\ UNCHANGED readyState

\* The MediaRecorder states in which a recorder records or can go on recording.
Active == {"recording", "paused"}

\* stopRecording(): the state of the page afterwards. Nothing happens without a
\* recorder or while state.isRecording is false.
stopRecordingState(st) ==
    IF st.mediaRecorder = "none" \/ ~st.isRecording THEN st
    ELSE [st EXCEPT !.mediaRecorder = "inactive",
                    !.recorders = IF st.mediaRecorder \in Active THEN @ - 1 ELSE @,
                    !.isRecording = FALSE, !.isRecordingPaused = FALSE]

\* leaveMeeting(): stopRecording() if state.isRecording; peers cleared, state.ws closed and set to null, state reset. The
\* onclose of the socket it closes clears the heartbeat and, state.roomId being
\* null by then, does nothing else. Every peer connection is closed, and a
\* createOffer awaited on a closed connection never comes back.
leaveMeeting(st) ==
    [stopRecordingState(st) EXCEPT !.isHost = FALSE, !.peers = <<>>, !.ws = 0, !.wsReadyState = "closed",
               !.roomId = Undefined, !.participantId = Undefined, !.isMicOn = TRUE,
               !.isScreenSharing = FALSE, !.pingInterval = FALSE,
               !.awaiting = Undefined, !.pending = <<>>]

\* Mutant of createPeerConnection: initiator is ignored and taken as true.
createPeerConnectionInitiating(st, peerId, initiator) ==
    [st EXCEPT !.peers = MapSet(@, peerId,
        [initiator |-> TRUE, localDescription |-> TRUE,
         remoteDescription |-> FALSE, isMicOn |-> TRUE])]

\* createPeerConnection(peerId, peerName, isHost, initiator): state.peers.set with
\* a fresh RTCPeerConnection, on which the initiator sets its offer.
createPeerConnection(st, peerId, initiator) ==
    [st EXCEPT !.peers = MapSet(@, peerId,
        [initiator |-> initiator, localDescription |-> initiator,
         remoteDescription |-> FALSE, isMicOn |-> TRUE])]

\* Mutant of ConnectToAll: the newcomer creates its connections with initiator false.
RECURSIVE ConnectToAllWaiting(_, _)
ConnectToAllWaiting(st, ids) ==
    IF ids = {} THEN st
    ELSE LET id == CHOOSE i \in ids : TRUE
         IN ConnectToAllWaiting(createPeerConnection(st, id, FALSE), ids \ {id})

\* The peers of a page after createPeerConnection(id, .., true) for each id in ids.
RECURSIVE ConnectToAll(_, _)
ConnectToAll(st, ids) ==
    IF ids = {} THEN st
    ELSE LET id == CHOOSE i \in ids : TRUE
         IN ConnectToAll(createPeerConnection(st, id, TRUE), ids \ {id})

\* removePeer(peerId): the connection is closed and the entry deleted, if there is
\* one; a createOffer awaited on the closed connection never comes back, and the
\* loop that awaits it goes no further.
removePeer(st, peerId) ==
    IF ~MapHas(st.peers, peerId) THEN st
    ELSE [st EXCEPT !.peers = MapDelete(@, peerId),
                    !.pending = IF st.awaiting = peerId THEN <<>> ELSE @,
                    !.awaiting = IF @ = peerId THEN Undefined ELSE @]

\* handleSignalingMessage(data): the state of the page afterwards
handleSignalingMessage(st, data) ==
    IF data.type = "room-created"
    THEN [st EXCEPT !.roomId = data.roomId, !.participantId = data.participantId,
                    !.isHost = TRUE]
    ELSE IF data.type = "room-joined"
    THEN ConnectToAll([st EXCEPT !.roomId = data.roomId,
                                 !.participantId = data.participantId,
                                 !.isHost = FALSE],
                      {p.id : p \in data.participants})
    ELSE IF data.type = "participant-joined"
    THEN createPeerConnection(st, data.participant.id, FALSE)
    ELSE IF data.type = "participant-left"
    THEN removePeer(st, data.participantId)
    ELSE IF data.type = "offer" /\ MapHas(st.peers, data.from)
    THEN [st EXCEPT !.peers[data.from].remoteDescription = TRUE,
                    !.peers[data.from].localDescription = TRUE]
    ELSE IF data.type = "answer" /\ MapHas(st.peers, data.from)
    THEN [st EXCEPT !.peers[data.from].remoteDescription = TRUE]
    ELSE IF data.type = "media-state-changed" /\ MapHas(st.peers, data.participantId)
            /\ data.mediaType = "audio"
    THEN [st EXCEPT !.peers[data.participantId].isMicOn = data.enabled]
    ELSE IF data.type = "start-screen-share"
    THEN [st EXCEPT !.screenSharerId = data.participantId]
    ELSE IF data.type = "stop-screen-share"
    THEN [st EXCEPT !.screenSharerId = Undefined]
    ELSE IF data.type = "reconnected"
    THEN [st EXCEPT !.isReconnecting = FALSE, !.reconnectAttempts = 0]
    ELSE IF data.type = "room-closed"
    THEN leaveMeeting(st)
    ELSE IF data.type = "error" /\ data.message = "Room not found"
    THEN leaveMeeting(st)
    ELSE st

\* handleSignalingMessage(data): what it passes to sendSignaling. The offers of
\* createPeerConnection(.., true) after room-joined, the answer of handleOffer.
signalingReplies(st, data) ==
    IF data.type = "room-joined"
    THEN {Offer(id) : id \in {p \in DOMAIN handleSignalingMessage(st, data).peers :
                                 /\ p \in {e.id : e \in data.participants}
                                 /\ handleSignalingMessage(st, data).peers[p].initiator}}
    ELSE IF data.type = "participant-joined"
    THEN {Offer(id) : id \in {p \in {data.participant.id} :
                                 handleSignalingMessage(st, data).peers[p].initiator}}
    ELSE IF data.type = "offer" /\ MapHas(st.peers, data.from)
    THEN {[type |-> "answer", target |-> data.from, from |-> Undefined, sdp |-> "sdp"]}
    ELSE {}

\* The frames the last handler of the server sent to the connection page q listens on.
Incoming(q) ==
    IF state[q].ws # 0 /\ state[q].wsReadyState = "open"
    THEN {f.msg : f \in {g \in BagToSet(sent) : g.to = state[q].ws}}
    ELSE {}

\* ws.onmessage of every page a frame was sent to: the frames of the last handler
\* arrive (at most one for each connection) before the next event
Deliver ==
    /\ last # Idle
    /\ last' = Idle
    /\ sent' = EmptyBag
    /\ state' = [q \in Conns |->
                    IF Incoming(q) = {} THEN state[q]
                    ELSE handleSignalingMessage(state[q], CHOOSE m \in Incoming(q) : TRUE)]
    /\ outbox' = [c \in Conns |->
                    outbox[c] \cup
                    UNION {signalingReplies(state[q], CHOOSE m \in Incoming(q) : TRUE) :
                              q \in {r \in Conns : state[r].ws = c /\ Incoming(r) # {}}}]
    /\ UNCHANGED <<readyState, participantId, roomId, rooms, heard>>

PageNext ==
    \/ \E c \in Conns :
        \/ NewPage(c)
        \/ Receive(c)
        \/ Drop(c)
    \/ \E q \in Conns :
        \/ \E c \in Conns : Reconnect(q, c)
        \/ OnOpen(q)
        \/ \E peerId \in PartIds : NegotiationNeeded(q, peerId)
    \/ Deliver

\* The pages and the server: joining, reconnecting and negotiating.
PageSpec == Init /\ [][PageNext]_vars

MediaNext ==
    \/ \E c \in Conns :
        \/ NewPage(c)
        \/ Receive(c)
        \/ Drop(c)
    \/ \E q \in Conns :
        \/ OnOpen(q)
        \/ toggleMic(q)
    \/ Deliver

\* The pages and the server: joining and switching the microphone.
MediaSpec == Init /\ [][MediaNext]_vars

\* The callback of the heartbeat's setInterval on page q: a ping, if state.ws is OPEN.
Ping(q) ==
    /\ last = Idle
    /\ state[q].pingInterval
    /\ outbox' = sendSignaling(state[q], {[type |-> "ping"]})
    /\ PageEvent("ping", state[q].ws, [type |-> "ping"])
    /\ UNCHANGED <<readyState, state>>

HeartbeatNext ==
    \/ \E c \in Conns :
        \/ NewPage(c)
        \/ Receive(c)
        \/ Drop(c)
    \/ \E q \in Conns :
        \/ \E c \in Conns : Reconnect(q, c)
        \/ OnOpen(q)
        \/ Ping(q)
    \/ Deliver

\* The pages and the server: joining, reconnecting and the heartbeat. The event
\* loop of a page runs the callback of a timer that is set again and again, and
\* what the server has sent arrives.
HeartbeatSpec ==
    /\ Init
    /\ [][HeartbeatNext]_vars
    /\ WF_vars(Deliver)
    /\ \A q \in Conns : SF_vars(Ping(q))

\* The pages (the first FlakyPages of them) that may find the server out of reach.
FlakyPages == 1

\* ws.onclose and its timer, for a connectWebSocket() whose socket never opens (the
\* server cannot be reached): the page keeps the socket, closed.
ReconnectFails(q) ==
    /\ last = Idle
    /\ q <= FlakyPages
    /\ state[q].ws # 0
    /\ state[q].roomId # Undefined
    /\ MayReconnect(state[q])
    /\ state' = [state EXCEPT ![q] = [Reconnecting(@) EXCEPT !.wsReadyState = "closed"]]
    /\ PageEvent("onclose", state[q].ws, [type |-> Undefined])
    /\ UNCHANGED <<readyState, outbox>>

\* ws.onclose in a room after the last attempt allowed: leaveMeeting().
GiveUp(q) ==
    /\ last = Idle
    /\ state[q].ws # 0
    /\ state[q].roomId # Undefined
    /\ ~MayReconnect(state[q])
    /\ state' = [state EXCEPT ![q] = leaveMeeting([@ EXCEPT !.isReconnecting = TRUE])]
    /\ PageEvent("giveup", state[q].ws, [type |-> Undefined])
    /\ UNCHANGED <<readyState, outbox>>

ReconnectNext ==
    \/ \E c \in Conns :
        \/ NewPage(c)
        \/ Receive(c)
        \/ Drop(c)
    \/ \E q \in Conns :
        \/ \E c \in Conns : Reconnect(q, c)
        \/ ReconnectFails(q)
        \/ GiveUp(q)
        \/ OnOpen(q)
    \/ Deliver

\* The pages and the server: joining and reconnecting to a server that may be out
\* of reach.
ReconnectSpec == Init /\ [][ReconnectNext]_vars

\* The participants array in the order of the Map it was made from, which is the
\* order of insertion: the creator of the room, whose entry has isHost true, comes
\* first. Among the others the room does not tell who came first.
RECURSIVE ListOrder(_)
ListOrder(participants) ==
    IF participants = {} THEN <<>>
    ELSE LET first == IF \E p \in participants : p.isHost
                      THEN CHOOSE p \in participants : p.isHost
                      ELSE CHOOSE p \in participants : TRUE
         IN <<first.id>> \o ListOrder(participants \ {first})

\* createPeerConnection(peerId, .., true) up to its first await (createOffer): the
\* entry is in state.peers, without a description yet.
BeginPeer(st, peerId) ==
    [createPeerConnection(st, peerId, TRUE) EXCEPT !.peers[peerId].localDescription = FALSE,
                                                   !.awaiting = peerId]

\* The loop of the room-joined case, from one await to the next: the next
\* participant of the list, if there is one.
NextPeer(st) ==
    IF st.pending = <<>> THEN st
    ELSE BeginPeer([st EXCEPT !.pending = Tail(@)], Head(st.pending))

\* handleSignalingMessage(data) up to its first await: the room-joined case runs
\* as far as the createOffer of the first participant, every other case to its end.
handleSignalingMessageStart(st, data) ==
    IF data.type = "room-joined"
    THEN NextPeer([st EXCEPT !.roomId = data.roomId,
                             !.participantId = data.participantId,
                             !.isHost = FALSE,
                             !.pending = ListOrder(data.participants)])
    ELSE handleSignalingMessage(st, data)

\* What handleSignalingMessage(data) passes to sendSignaling before its first await.
signalingRepliesStart(st, data) ==
    IF data.type = "room-joined" THEN {} ELSE signalingReplies(st, data)

\* ws.onmessage of every page a frame was sent to, where the handler of one frame
\* runs up to its first await and the next frame is handled then.
DeliverAsync ==
    /\ last # Idle
    /\ last' = Idle
    /\ sent' = EmptyBag
    /\ state' = [q \in Conns |->
                    IF Incoming(q) = {} THEN state[q]
                    ELSE handleSignalingMessageStart(state[q], CHOOSE m \in Incoming(q) : TRUE)]
    /\ outbox' = [c \in Conns |->
                    outbox[c] \cup
                    UNION {signalingRepliesStart(state[q], CHOOSE m \in Incoming(q) : TRUE) :
                              q \in {r \in Conns : state[r].ws = c /\ Incoming(r) # {}}}]
    /\ heard' = [c \in Conns |->
                    IF \E q \in Conns : state[q].ws = c /\ Incoming(q) # {}
                    THEN HeardAfter(c) ELSE heard[c]]
    /\ UNCHANGED <<readyState, participantId, roomId, rooms>>

\* The createOffer and setLocalDescription page q awaits in createPeerConnection
\* come back: the offer goes out and the loop of the room-joined case goes on.
ContinueRoomJoined(q) ==
    /\ last = Idle
    /\ state[q].awaiting # Undefined
    /\ LET peerId == state[q].awaiting
           st == [state[q] EXCEPT !.peers[peerId].localDescription = TRUE,
                                  !.awaiting = Undefined]
       IN /\ state' = [state EXCEPT ![q] = NextPeer(st)]
          /\ outbox' = sendSignaling(state[q], {Offer(peerId)})
          /\ PageEvent("createOffer", state[q].ws, Offer(peerId))
    /\ UNCHANGED readyState

AsyncNext ==
    \/ \E c \in Conns :
        \/ NewPage(c)
        \/ Receive(c)
        \/ Drop(c)
    \/ \E q \in Conns :
        \/ OnOpen(q)
        \/ ContinueRoomJoined(q)
    \/ DeliverAsync

\* The pages and the server: joining and leaving, with the handler of room-joined
\* taken one await at a time.
AsyncSpec == Init /\ [][AsyncNext]_vars

\* ws.onclose of page q, whose socket has closed (whether or not the server has
\* seen it): the heartbeat is cleared and, in a room, the page is reconnecting and
\* sets the timer of its next attempt, or leaves after the last one.
OnClose(q) ==
    /\ last = Idle
    /\ state[q].ws # 0
    /\ state[q].wsReadyState # "closed"
    /\ LET st == [state[q] EXCEPT !.wsReadyState = "closed", !.pingInterval = FALSE]
       IN state' = [state EXCEPT ![q] =
                       IF st.roomId = Undefined THEN st
                       ELSE IF MayReconnect(st)
                       THEN [st EXCEPT !.isReconnecting = TRUE, !.reconnectTimer = TRUE]
                       ELSE leaveMeeting([st EXCEPT !.isReconnecting = TRUE])]
    /\ PageEvent("onclose", state[q].ws, [type |-> Undefined])
    /\ UNCHANGED <<readyState, outbox>>

\* The callback of the timer onclose has set, two seconds later:
\* state.reconnectAttempts++ and connectWebSocket(), whose socket the server accepts
\* as connection c.
ReconnectTimer(q, c) ==
    /\ state[q].reconnectTimer
    /\ HandleOpen(c)
    /\ state' = [state EXCEPT ![q] = [@ EXCEPT !.reconnectTimer = FALSE,
                                               !.reconnectAttempts = @ + 1,
                                               !.pingInterval = FALSE,
                                               !.ws = c, !.wsReadyState = "connecting"]]
    /\ UNCHANGED <<outbox, heard>>

\* The user of page q, in the meeting view, clicks the leave button: leaveMeeting().
Leave(q) ==
    /\ last = Idle
    /\ state[q].ws # 0
    /\ state[q].roomId # Undefined
    /\ state' = [state EXCEPT ![q] = leaveMeeting(@)]
    /\ PageEvent("leave", state[q].ws, [type |-> Undefined])
    /\ UNCHANGED <<readyState, outbox>>

LeaveNext ==
    \/ \E c \in Conns :
        \/ NewPage(c)
        \/ Receive(c)
        \/ Drop(c)
    \/ \E q \in Conns :
        \/ OnOpen(q)
        \/ OnClose(q)
        \/ \E c \in Conns : ReconnectTimer(q, c)
        \/ Leave(q)
    \/ Deliver

\* The pages and the server: joining, losing the connection, reconnecting on a
\* timer and leaving.
LeaveSpec == Init /\ [][LeaveNext]_vars

\* The pages whose user clicks the recording buttons (the first RecordingPages).
RecordingPages == 1

\* The timers of startRecording that may be pending on one page at a time.
MaxRecordingTimers == 2

\* The MediaRecorders one page may have running at a time.
MaxRecorders == 3

\* A message without a payload, as the page sends recording-started and
\* recording-stopped.
Notice(type) == [type |-> type, streamId |-> StreamIdOf(type)]

\* The user of page q clicks recordBtn, which the meeting view shows to the host
\* until a recording has started: startRecording() up to its setTimeout.
startRecording(q) ==
    /\ last = Idle
    /\ q <= RecordingPages
    /\ state[q].ws # 0
    /\ state[q].isHost
    /\ ~state[q].isRecording
    /\ state[q].recordingTimers < MaxRecordingTimers
    /\ state' = [state EXCEPT ![q].recordingTimers = @ + 1]
    /\ PageEvent("startRecording", state[q].ws, [type |-> Undefined])
    /\ UNCHANGED <<readyState, outbox>>

\* The callback of the setTimeout of startRecording, 100 ms later: a new
\* MediaRecorder is put into state.mediaRecorder and started (the one that was
\* there is neither stopped nor kept), and recording-started goes out.
RecordingTimer(q) ==
    /\ last = Idle
    /\ state[q].recordingTimers > 0
    /\ state[q].recorders < MaxRecorders
    /\ state' = [state EXCEPT ![q] = [@ EXCEPT !.recordingTimers = @ - 1,
                                               !.mediaRecorder = "recording",
                                               !.recorders = @ + 1,
                                               !.isRecording = TRUE,
                                               !.isRecordingPaused = FALSE]]
    /\ outbox' = sendSignaling(state[q], {Notice("recording-started")})
    /\ PageEvent("recordingTimer", state[q].ws, Notice("recording-started"))
    /\ UNCHANGED readyState

\* The user of page q clicks pauseRecordBtn, shown while a recording runs:
\* pauseRecording() pauses the recorder or resumes it.
pauseRecording(q) ==
    /\ last = Idle
    /\ q <= RecordingPages
    /\ state[q].ws # 0
    /\ state[q].isRecording
    /\ state' = [state EXCEPT ![q] =
                    IF @.mediaRecorder = "none" \/ ~@.isRecording THEN @
                    ELSE IF @.isRecordingPaused
                    THEN [@ EXCEPT !.mediaRecorder = "recording", !.isRecordingPaused = FALSE]
                    ELSE [@ EXCEPT !.mediaRecorder = "paused", !.isRecordingPaused = TRUE]]
    /\ PageEvent("pauseRecording", state[q].ws, [type |-> Undefined])
    /\ UNCHANGED <<readyState, outbox>>

\* The user of page q clicks stopRecordBtn, shown while a recording runs:
\* stopRecording(), and recording-stopped goes out.
stopRecording(q) ==
    /\ last = Idle
    /\ q <= RecordingPages
    /\ state[q].ws # 0
    /\ state[q].isRecording
    /\ state' = [state EXCEPT ![q] = stopRecordingState(@)]
    /\ outbox' = IF stopRecordingState(state[q]) = state[q] THEN outbox
                 ELSE sendSignaling(state[q], {Notice("recording-stopped")})
    /\ PageEvent("stopRecording", state[q].ws, Notice("recording-stopped"))
    /\ UNCHANGED readyState

RecordNext ==
    \/ \E c \in Conns :
        \/ NewPage(c)
        \/ Receive(c)
        \/ Drop(c)
    \/ \E q \in Conns :
        \/ OnOpen(q)
        \/ startRecording(q)
        \/ RecordingTimer(q)
        \/ pauseRecording(q)
        \/ stopRecording(q)
    \/ Deliver

\* The pages and the server: joining and recording on the host.
RecordSpec == Init /\ [][RecordNext]_vars

ScreenNext ==
    \/ \E c \in Conns :
        \/ NewPage(c)
        \/ Receive(c)
        \/ Drop(c)
    \/ \E q \in Conns :
        \/ OnOpen(q)
        \/ toggleScreenShare(q)
    \/ Deliver

\* The pages and the server: joining, leaving and sharing a screen.
ScreenSpec == Init /\ [][ScreenNext]_vars

----------------------------------------------------------------------------
(* Properties.  A state with last # Idle is the state right after the      *)
(* handler named by last; sent holds exactly the frames that handler sent. *)

\* The handler that has just run took a message of this type.
Handled(type) == last.ev = "message" /\ last.data.type = type

\* The participants of a room marked isHost.
Hosts(room) == {p \in DOMAIN room.participants : room.participants[p].isHost}

\* One frame carrying msg to connection c.
Frame(c, msg) == [to |-> c, msg |-> msg]

\* C1: every room in the table has exactly one participant with isHost = true in
\* its participant set, and that participant is the room's recorded host.
C1_ExactlyOneHost ==
    \A r \in DOMAIN rooms :
        /\ Cardinality(Hosts(rooms[r])) = 1
        /\ \A p \in Hosts(rooms[r]) : rooms[r].participants[p] = rooms[r].host

\* C2: when the connection of a room's host closes, every room that connection
\* created is gone from the table afterwards, and every other participant of such a
\* room whose connection is open gets exactly one room-closed. (The claim's last
\* part, that a later join-room for such an id is refused, needs the room to be gone.)
C2_HostCloseTearsDown ==
    [][\A ws \in Conns :
          (last'.ev = "close" /\ last'.ws = ws) =>
             \A r \in DOMAIN rooms :
                rooms[r].host.ws = ws =>
                   /\ r \notin DOMAIN rooms'
                   /\ \A p \in DOMAIN rooms[r].participants :
                         LET q == rooms[r].participants[p]
                         IN (q.ws # ws /\ readyState[q.ws] = "open") =>
                               CopiesIn(Frame(q.ws, [type |-> "room-closed"]), sent') = 1]_vars

\* C3: the roomId a create-room returns is not the id of a room that is in the
\* table when the message arrives (create-room never replaces an active room).
C3_CreateNeverOverwrites ==
    [][(last'.ev = "message" /\ last'.data.type = "create-room") =>
          roomId'[last'.ws] \notin DOMAIN rooms]_vars

\* C4: after create-room the new room holds exactly one participant, the
\* requester's, marked host and recorded as the room's host, and the only frame sent
\* is room-created{roomId, participantId, isHost: true} to the requester.
C4_CreateRoomEffect ==
    Handled("create-room") =>
        LET ws == last.ws
            id == roomId[ws]
            pid == participantId[ws]
        IN /\ id \in DOMAIN rooms
           /\ DOMAIN rooms[id].participants = {pid}
           /\ rooms[id].participants[pid].id = pid
           /\ rooms[id].participants[pid].ws = ws
           /\ rooms[id].participants[pid].isHost
           /\ rooms[id].host = rooms[id].participants[pid]
           /\ sent = SetToBag({Frame(ws, [type |-> "room-created", roomId |-> id,
                                           participantId |-> pid, isHost |-> TRUE])})

\* C4 happens while another open connection holds the id of the very room that the
\* new one replaced (so there is somebody who could wrongly have been told).
C4_Witness ==
    /\ Handled("create-room")
    /\ \E c \in Conns \ {last.ws} :
          readyState[c] = "open" /\ roomId[c] = roomId[last.ws]

\* C5: a join-room whose roomId is no key of the table sends error "Room not
\* found" to the requester and nothing else to anybody, creates no participant, and
\* leaves the table and every connection's recorded room as they were.
C5_JoinUnknownRoom ==
    [][(/\ last'.ev = "message"
        /\ last'.data.type = "join-room"
        /\ last'.data.roomId \notin DOMAIN rooms) =>
          /\ sent' = SetToBag({Frame(last'.ws, [type |-> "error",
                                                message |-> "Room not found"])})
          /\ rooms' = rooms
          /\ roomId' = roomId]_vars

\* C5 happens for the id of a closed room that the requester still holds, while
\* another room with an open participant exists.
C5_Witness ==
    /\ Handled("join-room")
    /\ last.data.roomId \in RoomIds \ DOMAIN rooms
    /\ roomId[last.ws] = last.data.roomId
    /\ \E r \in DOMAIN rooms : \E p \in DOMAIN rooms[r].participants :
          /\ rooms[r].participants[p].ws # last.ws
          /\ readyState[rooms[r].participants[p].ws] = "open"

\* The number of frames the last handler sent to connection c.
FramesTo(c) ==
    BagCardinality([f \in {g \in BagToSet(sent) : g.to = c} |-> sent[f]])

\* C6: a successful join-room adds the caller as a guest and answers room-joined
\* whose participants are exactly the room's participants without the caller, each
\* with its id, name and isHost; every other participant whose connection is open
\* gets exactly one participant-joined with the caller's id and the name it sent, and
\* the caller gets no participant-joined.
C6_JoinRoomEffect ==
    (Handled("join-room") /\ last.data.roomId \in DOMAIN rooms) =>
        LET ws == last.ws
            pid == participantId[ws]
            room == rooms[last.data.roomId]
            others == DOMAIN room.participants \ {pid}
            joined == [type |-> "participant-joined",
                       participant |-> [id |-> pid, name |-> last.data.name,
                                        isHost |-> FALSE]]
            reply == [type |-> "room-joined", roomId |-> last.data.roomId,
                      participantId |-> pid, isHost |-> FALSE,
                      participants |->
                         {[id |-> p, name |-> room.participants[p].name,
                           isHost |-> room.participants[p].isHost] : p \in others}]
        IN /\ pid \in DOMAIN room.participants
           /\ room.participants[pid].ws = ws
           /\ ~room.participants[pid].isHost
           /\ roomId[ws] = last.data.roomId
           /\ CopiesIn(Frame(ws, reply), sent) = 1
           /\ FramesTo(ws) = 1
           /\ \A p \in others :
                 LET c == room.participants[p].ws
                 IN IF readyState[c] = "open"
                    THEN CopiesIn(Frame(c, joined), sent) = 1 /\ FramesTo(c) = 1
                    ELSE FramesTo(c) = 0
           /\ \A f \in BagToSet(sent) :
                 f.to = ws \/ \E p \in others : room.participants[p].ws = f.to

\* C6 happens in a room that holds, besides the caller, a participant whose
\* connection is open and one whose connection has closed.
C6_Witness ==
    /\ Handled("join-room")
    /\ last.data.roomId \in DOMAIN rooms
    /\ LET room == rooms[last.data.roomId]
           others == DOMAIN room.participants \ {participantId[last.ws]}
       IN /\ \E p \in others : readyState[room.participants[p].ws] = "open"
          /\ \E p \in others : readyState[room.participants[p].ws] = "closed"

\* C7: an offer, answer or ice-candidate whose target is a participant of the
\* sender's room goes to that target's connection and to no other connection.
C7_RelayOnlyToTarget ==
    (/\ last.ev = "message"
     /\ last.data.type \in RelayTypes
     /\ roomId[last.ws] \in DOMAIN rooms
     /\ last.data.target \in DOMAIN rooms[roomId[last.ws]].participants) =>
        LET t == rooms[roomId[last.ws]].participants[last.data.target].ws
        IN /\ \A f \in BagToSet(sent) :
                 /\ f.to = t
                 /\ f.msg.type = last.data.type
                 /\ f.msg.target = last.data.target
                 /\ f.msg.sdp = last.data.sdp
           /\ BagCardinality(sent) = IF readyState[t] = "open" THEN 1 ELSE 0

\* C7 happens with a third participant listening in the sender's room and an open
\* participant in another room.
C7_Witness ==
    /\ last.ev = "message"
    /\ last.data.type \in RelayTypes
    /\ roomId[last.ws] \in DOMAIN rooms
    /\ LET room == rooms[roomId[last.ws]]
       IN /\ last.data.target \in DOMAIN room.participants
          /\ participantId[last.ws] \in DOMAIN room.participants
          /\ last.data.target # participantId[last.ws]
          /\ BagCardinality(sent) = 1
          /\ \E p \in DOMAIN room.participants \ {last.data.target, participantId[last.ws]} :
                readyState[room.participants[p].ws] = "open"
    /\ \E r \in DOMAIN rooms \ {roomId[last.ws]} :
          \E p \in DOMAIN rooms[r].participants :
             readyState[rooms[r].participants[p].ws] = "open"

\* C8: the `from` of every relayed offer, answer or ice-candidate is the participant
\* id the server gave the sending connection, whatever the payload holds.
C8_FromIsSender ==
    (last.ev = "message" /\ last.data.type \in RelayTypes) =>
        \A f \in BagToSet(sent) : f.msg.from = participantId[last.ws]

BroadcastTypes == {"toggle-media"} \cup ScreenTypes \cup RecordingTypes

\* C9: a toggle-media, start/stop-screen-share or recording-started/stopped message
\* is delivered exactly once to every other participant of the sender's room whose
\* connection is open, and never to the sender, whether the sender is host or guest.
C9_BroadcastToOthersOnce ==
    (/\ last.ev = "message"
     /\ last.data.type \in BroadcastTypes
     /\ roomId[last.ws] \in DOMAIN rooms) =>
        LET ws == last.ws
            pid == participantId[ws]
            room == rooms[roomId[ws]]
            others == DOMAIN room.participants \ {pid}
            type == IF last.data.type = "toggle-media" THEN "media-state-changed"
                    ELSE last.data.type
        IN /\ FramesTo(ws) = 0
           /\ \A p \in others :
                 FramesTo(room.participants[p].ws) =
                    IF readyState[room.participants[p].ws] = "open" THEN 1 ELSE 0
           /\ \A f \in BagToSet(sent) :
                 /\ \E p \in others : room.participants[p].ws = f.to
                 /\ f.msg.type = type
                 /\ f.msg.participantId = pid
                 /\ type = "media-state-changed" =>
                       /\ f.msg.mediaType = last.data.mediaType
                       /\ f.msg.enabled = last.data.enabled

\* C9 happens for a recording-started sent by a guest to a room with two others.
C9_Witness ==
    /\ Handled("recording-started")
    /\ roomId[last.ws] \in DOMAIN rooms
    /\ LET room == rooms[roomId[last.ws]]
           pid == participantId[last.ws]
       IN /\ pid \in DOMAIN room.participants
          /\ ~room.participants[pid].isHost
          /\ Cardinality(DOMAIN room.participants) = 3
    /\ BagCardinality(sent) = 2

\* C10: when the connection of a guest closes, the guest leaves its room's
\* participant set, every remaining participant whose connection is open gets exactly
\* one participant-left with the guest's id, and the room stays in the table with
\* the same host and the same other participants.
C10_GuestCloseLeaves ==
    [][\A ws \in Conns :
          (/\ last'.ev = "close"
           /\ last'.ws = ws
           /\ roomId[ws] \in DOMAIN rooms
           /\ participantId[ws] \in DOMAIN rooms[roomId[ws]].participants
           /\ ~rooms[roomId[ws]].participants[participantId[ws]].isHost) =>
             LET r == roomId[ws]
                 pid == participantId[ws]
                 rest == DOMAIN rooms[r].participants \ {pid}
                 left == [type |-> "participant-left", participantId |-> pid]
             IN /\ r \in DOMAIN rooms'
                /\ rooms'[r].host = rooms[r].host
                /\ DOMAIN rooms'[r].participants = rest
                /\ \A p \in rest : rooms'[r].participants[p] = rooms[r].participants[p]
                /\ sent' = SetToBag({Frame(rooms[r].participants[p].ws, left) :
                                        p \in {q \in rest :
                                           readyState'[rooms[r].participants[q].ws] = "open"}})]_vars

\* C10 happens: a connection has closed, its room is still in the table without it,
\* and the two participants left in it were told.
C10_Witness ==
    /\ last.ev = "close"
    /\ roomId[last.ws] \in DOMAIN rooms
    /\ participantId[last.ws] \notin DOMAIN rooms[roomId[last.ws]].participants
    /\ BagCardinality(sent) = 2
    /\ \A f \in BagToSet(sent) :
          f.msg = [type |-> "participant-left", participantId |-> participantId[last.ws]]

----------------------------------------------------------------------------
(* Reconnection.                                                           *)

\* The join-room just handled came from a page that reconnects: it carries the
\* participant id of its lost connection and names a room of the table.
Rejoined ==
    /\ Handled("join-room")
    /\ last.data.rejoinId # Undefined
    /\ last.data.roomId \in DOMAIN rooms

\* C11: a join-room whose rejoinId is the participant id the page was given before
\* is answered by room-joined with that same participant id, the room holds exactly
\* one entry for the page (under that id), and no participant-joined is broadcast.
C11_RejoinKeepsIdentity ==
    Rejoined =>
        LET room == rooms[last.data.roomId]
        IN /\ \A f \in BagToSet(sent) :
                 /\ f.to = last.ws
                 /\ f.msg.type = "room-joined"
                 /\ f.msg.participantId = last.data.rejoinId
           /\ {p \in DOMAIN room.participants : room.participants[p].ws = last.ws}
                 = {last.data.rejoinId}

\* C12: when a connection closes, its participant stays in the participant set of
\* its room (so that a later join-room with its id as rejoinId finds it), and
\* neither participant-left nor room-closed is sent at that moment.
C12_CloseKeepsParticipant ==
    [][\A ws \in Conns :
          (/\ last'.ev = "close"
           /\ last'.ws = ws
           /\ roomId[ws] \in DOMAIN rooms
           /\ participantId[ws] \in DOMAIN rooms[roomId[ws]].participants) =>
             /\ roomId[ws] \in DOMAIN rooms'
             /\ participantId[ws] \in DOMAIN rooms'[roomId[ws]].participants
             /\ sent' = EmptyBag]_vars

\* C13: after a page has rejoined its room, every other participant of the room
\* whose connection is open gets a participant-reconnected notice.
C13_ReconnectedNotice ==
    Rejoined =>
        LET room == rooms[last.data.roomId]
        IN \A p \in DOMAIN room.participants \ {participantId[last.ws]} :
              readyState[room.participants[p].ws] = "open" =>
                 \E f \in BagToSet(sent) :
                    /\ f.to = room.participants[p].ws
                    /\ f.msg.type = "participant-reconnected"

----------------------------------------------------------------------------
(* The relay and malformed messages.                                       *)

\* The connection that was given participant id p.
ConnOf(p) == CHOOSE c \in Conns : participantId[c] = p

\* The number of relayed frames the last handler delivered to T as coming from S.
Delivered(S, T) ==
    BagCardinality([f \in {g \in BagToSet(sent) : g.to = ConnOf(T) /\ g.msg.from = S}
                       |-> sent[f]])

\* S and T are participants of one room and both their connections are open.
Paired(S, T) ==
    /\ readyState[ConnOf(S)] = "open"
    /\ readyState[ConnOf(T)] = "open"
    /\ \E r \in DOMAIN rooms : {S, T} \subseteq DOMAIN rooms[r].participants

\* C17: for every sender S and target T, what the relay delivers to T as coming
\* from S is exactly what S sent to T while both were members with open
\* connections: each such message once, at once (so in the order sent), and
\* nothing else.
C17_RelayPreservesSequence ==
    (last.ev = "message" /\ last.data.type \in RelayTypes) =>
        \A S \in {participantId[c] : c \in Conns} \ {Undefined} :
           \A T \in {participantId[c] : c \in Conns} \ {Undefined} :
              Delivered(S, T) =
                 IF /\ participantId[last.ws] = S
                    /\ last.data.target = T
                    /\ Paired(S, T)
                 THEN 1 ELSE 0

\* C18: an offer, answer or ice-candidate whose sender has no room in the table
\* (ws.roomId unset or naming a room that is gone), or whose target is no
\* participant of that room, sends nothing to anybody and leaves the table and every
\* connection's recorded room as they were.
C18_RelayDropped ==
    [][(/\ last'.ev = "message"
        /\ last'.data.type \in RelayTypes
        /\ \/ roomId[last'.ws] \notin DOMAIN rooms
           \/ last'.data.target \notin DOMAIN rooms[roomId[last'.ws]].participants) =>
          /\ sent' = EmptyBag
          /\ rooms' = rooms
          /\ roomId' = roomId]_vars

\* C18 happens for a target whose connection is open in another room of the table,
\* while the sender's room has another open participant who could have been told.
C18_Witness ==
    /\ last.ev = "message"
    /\ last.data.type \in RelayTypes
    /\ sent = EmptyBag
    /\ roomId[last.ws] \in DOMAIN rooms
    /\ last.data.target \notin DOMAIN rooms[roomId[last.ws]].participants
    /\ \E p \in DOMAIN rooms[roomId[last.ws]].participants \ {participantId[last.ws]} :
          readyState[rooms[roomId[last.ws]].participants[p].ws] = "open"
    /\ \E r \in DOMAIN rooms \ {roomId[last.ws]} :
          /\ last.data.target \in DOMAIN rooms[r].participants
          /\ readyState[rooms[r].participants[last.data.target].ws] = "open"

\* A parsed message that is malformed: its type has no case, or it is a join-room
\* without roomId, a create-room without name, or a relay message without target.
MalformedMessage(data) ==
    \/ data.type \in UnhandledTypes
    \/ data.type = "join-room" /\ data.roomId = Undefined
    \/ data.type = "create-room" /\ data.name = Undefined
    \/ data.type \in RelayTypes /\ data.target = Undefined

\* C19: a malformed message is dropped: nothing is sent to any connection, the
\* table and every connection's recorded room stay as they were, and the connection
\* stays open.
C19_MalformedDropped ==
    [][(last'.ev = "message" /\ MalformedMessage(last'.data)) =>
          /\ sent' = EmptyBag
          /\ rooms' = rooms
          /\ roomId' = roomId
          /\ readyState' = readyState]_vars

----------------------------------------------------------------------------
(* The pages: who offers.                                                  *)

\* Page q is in a meeting on an open connection and has been told its id on it.
Live(q) ==
    /\ state[q].ws # 0
    /\ state[q].wsReadyState = "open"
    /\ readyState[state[q].ws] = "open"
    /\ state[q].participantId = participantId[state[q].ws]

\* Pages a and b are the two sides of a pair of participants of one room.
Together(a, b) ==
    /\ a # b
    /\ Live(a)
    /\ Live(b)
    /\ \E r \in DOMAIN rooms :
          /\ state[a].roomId = r
          /\ state[b].roomId = r
          /\ {state[a].participantId, state[b].participantId}
                \subseteq DOMAIN rooms[r].participants

Arrives(q, type) ==
    /\ last # Idle
    /\ last' = Idle
    /\ \E m \in Incoming(q) : m.type = type

Arrived(q) == CHOOSE m \in Incoming(q) : TRUE

\* The offers page q passes to sendSignaling in the step (but for an offer equal to
\* one that is still waiting in its outbox).
OffersSent(q) ==
    {m \in outbox'[state[q].ws] \ outbox[state[q].ws] : m.type = "offer"}

C16_NoOfferBeforeRemote ==
    [][\A q \in Conns :
          /\ \A p \in DOMAIN state'[q].peers :
                (~state'[q].peers[p].initiator /\ Offer(p) \in OffersSent(q)) =>
                   (p \in DOMAIN state[q].peers /\ state[q].peers[p].remoteDescription)
          /\ \A p \in DOMAIN state[q].peers :
                (/\ ~state[q].peers[p].initiator
                 /\ ~state[q].peers[p].remoteDescription
                 /\ last'.ev = "negotiationneeded"
                 /\ last'.ws = state[q].ws
                 /\ last'.data.target = p) =>
                   (state' = state /\ outbox' = outbox)]_vars

\* C16 happens: negotiationneeded has just fired on a connected page for a peer it
\* is not the initiator for and has no remote description from, and no offer for
\* that peer is on its way.
C16_Witness ==
    /\ last.ev = "negotiationneeded"
    /\ \E q \in Conns :
          /\ Live(q)
          /\ state[q].ws = last.ws
          /\ last.data.target \in DOMAIN state[q].peers
          /\ ~state[q].peers[last.data.target].initiator
          /\ ~state[q].peers[last.data.target].remoteDescription
          /\ Offer(last.data.target) \notin outbox[state[q].ws]

----------------------------------------------------------------------------
(* Screen sharing and the heartbeat.                                       *)

\* message.field of a frame, undefined when the frame has no such field.
Field(msg, name) == IF name \in DOMAIN msg THEN msg[name] ELSE Undefined

\* C21: a start-screen-share that carries a streamId reaches every other
\* participant of the sender's room whose connection is open as a frame with the
\* sender's participantId and that same streamId.
C21_ScreenShareCarriesStreamId ==
    (/\ Handled("start-screen-share")
     /\ last.data.streamId # Undefined
     /\ roomId[last.ws] \in DOMAIN rooms) =>
        \A f \in BagToSet(sent) :
           /\ Field(f.msg, "participantId") = participantId[last.ws]
           /\ Field(f.msg, "streamId") = last.data.streamId

\* C23: a ping sends nothing, neither to the sender nor to any other connection,
\* and leaves the table (rooms, their participants and hosts) and every
\* connection's recorded room and state as they were.
C23_PingChangesNothing ==
    [][(last'.ev = "message" /\ last'.data.type = "ping") =>
          /\ sent' = EmptyBag
          /\ rooms' = rooms
          /\ roomId' = roomId
          /\ participantId' = participantId
          /\ readyState' = readyState]_vars

\* C23 happens for a ping of a participant of a room in which two other
\* participants listen on open connections.
C23_Witness ==
    /\ Handled("ping")
    /\ sent = EmptyBag
    /\ roomId[last.ws] \in DOMAIN rooms
    /\ LET room == rooms[roomId[last.ws]]
       IN /\ participantId[last.ws] \in DOMAIN room.participants
          /\ Cardinality({p \in DOMAIN room.participants \ {participantId[last.ws]} :
                             readyState[room.participants[p].ws] = "open"}) = 2

\* Page q is in a room and its connection is open, at both ends.
InMeeting(q) ==
    /\ state[q].roomId # Undefined
    /\ state[q].ws # 0
    /\ state[q].wsReadyState = "open"
    /\ readyState[state[q].ws] = "open"

\* Page q has just sent a ping on its connection.
Pinged(q) == last.ev = "ping" /\ state[q].ws = last.ws /\ InMeeting(q)

\* C22: a page that is in a room on an open connection sends a ping sooner or
\* later unless it leaves the room or the connection closes before, on the first
\* connection of its session as on one it opened to reconnect.
C22_HeartbeatSent ==
    \A q \in Conns : [](InMeeting(q) => <>(Pinged(q) \/ ~InMeeting(q)))

----------------------------------------------------------------------------
(* Broadcasts whose sends may fail.                                        *)

\* The handler that has run in the step broadcast to its room with sends that
\* could fail.
BroadcastRan ==
    /\ last'.ev \in {"message", "close"}
    /\ "result" \in DOMAIN last'.data
    /\ RoomsHas(roomId[last'.ws])

\* The frames sent in the step to connection c.
FramesSentTo(c) == {f \in BagToSet(sent') : f.to = c}

\* C25: in every broadcast, that of the close handler (room-closed,
\* participant-left) included, each participant of the room other than the sender
\* whose connection is open and whose own send did not fail gets the message,
\* once, whatever the sends to the other participants returned.
C25_FailureIsolated ==
    [][BroadcastRan =>
          LET ws == last'.ws
              room == rooms[roomId[ws]]
          IN \A p \in DOMAIN room.participants \ {participantId[ws]} :
                LET c == room.participants[p].ws
                IN (readyState'[c] = "open" /\ last'.data.result[c] # "dropped") =>
                      /\ Cardinality(FramesSentTo(c)) = 1
                      /\ \A f \in FramesSentTo(c) :
                            /\ CopiesIn(f, sent') = 1
                            /\ f.msg.type \in {"media-state-changed", "room-closed",
                                                "participant-left"}]_vars

\* C25 happens in the close handler of a host: of the two others of its room the
\* send to one was dropped, and the other got room-closed.
C25_Witness ==
    /\ last.ev = "close"
    /\ "result" \in DOMAIN last.data
    /\ BagToSet(sent) # {}
    /\ \A f \in BagToSet(sent) : f.msg.type = "room-closed"
    /\ \E c \in Conns \ {last.ws} :
          /\ readyState[c] = "open"
          /\ roomId[c] = roomId[last.ws]
          /\ last.data.result[c] = "dropped"
          /\ FramesTo(c) = 0
    /\ \E c \in Conns \ {last.ws} :
          /\ last.data.result[c] # "dropped"
          /\ FramesTo(c) = 1

----------------------------------------------------------------------------
(* Reconnecting.                                                           *)

\* Page q runs its onclose in the step and gives up.
GivesUp(q) == last'.ev = "giveup" /\ last'.ws = state[q].ws

\* C29: a page makes one more attempt to reconnect only when it is in a room and
\* has made fewer than maxReconnectAttempts; when its connection closes after
\* that many it leaves the meeting instead; so the attempts it has made since the
\* server last acknowledged a reconnection never exceed maxReconnectAttempts.
C29_AttemptsBounded ==
    [][\A q \in Conns :
          /\ state'[q].reconnectAttempts <= maxReconnectAttempts
          /\ state'[q].reconnectAttempts # state[q].reconnectAttempts =>
                \/ /\ state'[q].reconnectAttempts = state[q].reconnectAttempts + 1
                   /\ state[q].reconnectAttempts < maxReconnectAttempts
                   /\ state[q].roomId # Undefined
                \/ /\ Arrives(q, "reconnected")
                   /\ state'[q].reconnectAttempts = 0
          /\ GivesUp(q) =>
                /\ state[q].reconnectAttempts = maxReconnectAttempts
                /\ state'[q].reconnectAttempts = maxReconnectAttempts
                /\ state'[q].ws = 0
                /\ state'[q].roomId = Undefined]_vars

\* C29 happens: a page that had rejoined its room on a second connection has made
\* its last attempt and left the meeting, while the server still holds its entry.
C29_Witness ==
    /\ last.ev = "giveup"
    /\ last.ws > 1
    /\ readyState[last.ws] = "open"
    /\ RoomsHas(roomId[last.ws])
    /\ \E q \in Conns :
          /\ state[q].reconnectAttempts = maxReconnectAttempts
          /\ state[q].ws = 0
          /\ state[q].roomId = Undefined

----------------------------------------------------------------------------
(* Roles and membership.                                                   *)

\* C24: the isHost of a participant id recorded in a room never changes for as
\* long as the id stays in that room (the same room: its host record is the same
\* before and after the step), whatever message arrives from whatever connection.
C24_RoleIsFixed ==
    [][\A r \in DOMAIN rooms \cap DOMAIN rooms' :
          rooms'[r].host = rooms[r].host =>
             \A p \in DOMAIN rooms[r].participants \cap DOMAIN rooms'[r].participants :
                rooms'[r].participants[p].isHost = rooms[r].participants[p].isHost]_vars

\* The rooms whose participant set holds the participant id of connection c.
RoomsOf(c) ==
    {r \in DOMAIN rooms : participantId[c] \in DOMAIN rooms[r].participants}

\* C30: the participant id of a connection is in the participant set of at most
\* one room at any time.
C30_AtMostOneRoom ==
    \A c \in Conns : Cardinality(RoomsOf(c)) <= 1

\* C28: a join-room whose roomId differs from the id of a room of the table at
\* most in letter case joins that room: no error is sent and the caller is a
\* participant of it afterwards.
C28_JoinIgnoresCase ==
    (/\ Handled("join-room")
     /\ \E r \in DOMAIN rooms : toUpperCase(r) = toUpperCase(last.data.roomId)) =>
        /\ \A f \in BagToSet(sent) : f.msg.type # "error"
        /\ roomId[last.ws] \in DOMAIN rooms
        /\ toUpperCase(roomId[last.ws]) = toUpperCase(last.data.roomId)
        /\ participantId[last.ws] \in DOMAIN rooms[roomId[last.ws]].participants

\* No room of the table holds the participant of connection c or was created by it.
Gone(c) ==
    /\ RoomsOf(c) = {}
    /\ \A r \in DOMAIN rooms : rooms[r].host.ws # c

\* C26: once a connection has closed, its participant is eventually in no room's
\* participant set and no room it created is in the table.
C26_ClosedEventuallyGone ==
    \A c \in Conns : [](readyState[c] = "closed" => <>Gone(c))

\* The connections behind the participant entries of the room with this id, as the
\* table holds them (nobody if the table has no such room).
InRoom(r) ==
    IF r \in DOMAIN rooms
    THEN {rooms[r].participants[p].ws : p \in DOMAIN rooms[r].participants}
    ELSE {}

\* The handler that has just run (in the step) took a relay message, a broadcast
\* message or the close of a connection.
RelayBroadcastOrClose ==
    \/ last'.ev = "close"
    \/ last'.ev = "message" /\ last'.data.type \in RelayTypes \cup BroadcastTypes

\* C27: handling a relay message, a broadcast message or a close from a connection
\* whose room is R changes no room of the table other than R (none appears, none
\* goes, participants and host stay) and sends no frame to a connection that is
\* not behind a participant entry of R.
C27_OnlyOwnRoom ==
    [][RelayBroadcastOrClose =>
          LET R == roomId[last'.ws]
          IN /\ DOMAIN rooms' \subseteq DOMAIN rooms
             /\ \A r \in DOMAIN rooms \ {R} : r \in DOMAIN rooms' /\ rooms'[r] = rooms[r]
             /\ \A f \in BagToSet(sent') : f.to \in InRoom(R)]_vars

\* C27 happens: a close has just told the other participant of its room, while
\* another room of the table has a participant on an open connection.
C27_Witness ==
    /\ last.ev = "close"
    /\ BagCardinality(sent) = 1
    /\ \E r \in DOMAIN rooms \ {roomId[last.ws]} :
          \E p \in DOMAIN rooms[r].participants :
             /\ readyState[rooms[r].participants[p].ws] = "open"
             /\ \A f \in BagToSet(sent) : f.to # rooms[r].participants[p].ws

\* C31: a relay or broadcast message is delivered to somebody only if its sender
\* is a member of the room it goes to: the sender's participant id is in the
\* participant set of the room whose participants get the frames.
C31_OnlyMembersReach ==
    (/\ last.ev = "message"
     /\ last.data.type \in RelayTypes \cup BroadcastTypes
     /\ sent # EmptyBag) =>
        /\ RoomsHas(roomId[last.ws])
        /\ participantId[last.ws] \in DOMAIN rooms[roomId[last.ws]].participants

\* C33: the name a participant-joined announces for the caller of a join-room is
\* the name the room stores for it (the one later room-joined replies list), also
\* when the join-room carried no name.
C33_AnnouncedNameIsStored ==
    (Handled("join-room") /\ RoomsHas(last.data.roomId)) =>
        \A f \in BagToSet(sent) :
           f.msg.type = "participant-joined" =>
              f.msg.participant.name =
                 rooms[last.data.roomId].participants[participantId[last.ws]].name

----------------------------------------------------------------------------
(* Membership notices.                                                     *)

\* C32: the membership notices about a participant X that arrive on the connection
\* of a member Q alternate: a participant-joined for X arrives only when the last
\* notice about X that Q was given in its room was not a participant-joined.
C32_NoticesAlternate ==
    [][\A f \in BagToSet(sent) :
          (last # Idle /\ last' = Idle /\ f.msg.type = "participant-joined") =>
              heard[f.to][f.msg.participant.id] # "joined"]_vars

----------------------------------------------------------------------------
(* The pages: a participant that left.                                     *)

\* C34: a page whose last membership notice about X is participant-left has no
\* entry for X in state.peers, also when the notice arrived while the page was
\* still going through the participants of its room-joined.
C34_LeftPeerIsGone ==
    \A q \in Conns :
       state[q].ws # 0 =>
          \A X \in PartIds :
             heard[state[q].ws][X] = "left" => ~MapHas(state[q].peers, X)

----------------------------------------------------------------------------
(* The pages: after a reconnection.                                        *)

\* C36: when room-joined arrives at a page that is reconnecting (its reconnection
\* has succeeded), the page is no longer reconnecting afterwards and its count of
\* attempts is back at 0.
C36_RejoinClearsReconnecting ==
    [][\A q \in Conns :
          (Arrives(q, "room-joined") /\ state[q].isReconnecting) =>
              /\ ~state'[q].isReconnecting
              /\ state'[q].reconnectAttempts = 0]_vars

----------------------------------------------------------------------------
(* The pages: leaving.                                                     *)

\* Page q runs leaveMeeting() in the step: it has a socket before and none after.
Leaves(q) == state[q].ws # 0 /\ state'[q].ws = 0

\* C39: leaveMeeting() returns the session state of the page to its initial
\* values: no room, no participant id, no peers, microphone on, not sharing, no
\* screen sharer, not reconnecting and no attempts counted.
C39_LeaveResetsState ==
    [][\A q \in Conns : Leaves(q) => state'[q] = InitialState]_vars

----------------------------------------------------------------------------
(* The pages: who shares a screen.                                         *)

\* No start-screen-share or stop-screen-share is on its way to the server.
ScreenSettled ==
    /\ last = Idle
    /\ \A c \in Conns : \A m \in outbox[c] : m.type \notin ScreenTypes

\* C37: once every start and stop of a screen share has gone through the server,
\* a page in a meeting has a screenSharerId exactly when another participant of
\* its room is sharing its screen, and the id is that of such a participant: a
\* stop from somebody else has not cleared it, the departure of the sharer has.
C37_SharerIsSharing ==
    ScreenSettled =>
        \A a \in Conns :
           Live(a) /\ state[a].roomId # Undefined =>
              LET Sharers == {state[b].participantId :
                                b \in {c \in Conns : Together(a, c)
                                                     /\ state[c].isScreenSharing}}
              IN IF Sharers = {} THEN state[a].screenSharerId = Undefined
                 ELSE state[a].screenSharerId \in Sharers

----------------------------------------------------------------------------
(* The pages: after leaving.                                               *)

\* Page q has left its meeting: it has opened its first connection and has no
\* socket now. (A page starts one session: no create or join follows.)
HasLeft(q) == state[q].ws = 0 /\ readyState[q] # "connecting"

\* C35: a page that has run leaveMeeting() opens no further connection, and so
\* sends no further join-room: a reconnect timer set before the leave does not
\* reconnect afterwards.
C35_LeftStaysOut ==
    [][\A q \in Conns : HasLeft(q) => state'[q].ws = 0]_vars

----------------------------------------------------------------------------
(* The pages: recording.                                                   *)

\* C38: on a page at most one MediaRecorder is recording or paused at a time (a
\* startRecording during the delay of an earlier one, or during a recording, has
\* made no second one), after stopRecording none is, and isRecordingPaused
\* implies isRecording.
C38_OneRecording ==
    \A q \in Conns :
       /\ state[q].recorders <= 1
       /\ last.ev = "stopRecording" /\ last.ws = state[q].ws => state[q].recorders = 0
       /\ state[q].isRecordingPaused => state[q].isRecording

----------------------------------------------------------------------------
(* The pages: what a late joiner knows.                                    *)

\* C20: once every toggle-media has gone through the server, a page that holds a
\* peer entry for another page of its room shows that page's microphone as it is,
\* also when it joined after the other page switched it.
C20_LateJoinerSeesMediaState ==
    (/\ last = Idle
     /\ \A c \in Conns : \A m \in outbox[c] : m.type # "toggle-media") =>
        \A a \in Conns : \A b \in Conns :
           (Together(a, b) /\ state[b].participantId \in DOMAIN state[a].peers) =>
              state[a].peers[state[b].participantId].isMicOn = state[b].isMicOn

====
